---- MODULE Spec2Model ----
(***************************************************************************)
(* FYND review pipeline: POST /api/review (rate limiter, input validation, *)
(* AI call, AI output validation, store append), modelled from             *)
(* Task_2/Fynd/app/api/review/route.ts, lib/types.ts and                   *)
(* lib/firebaseAdmin.ts.                                                   *)
(*                                                                         *)
(* JavaScript runs each handler to completion between await points, so one *)
(* action is the code between two awaits of POST:                          *)
(*   Start     lines 48-70  (getClientIp, isRateLimited, request.json())   *)
(*   BodyDone  lines 70-136 (safeParse, generateContent issued)            *)
(*   AiDone    lines 138-193 (parse, schema check, reviewData, push issued)*)
(*   PushDone  lines 193-199 (success response)                            *)
(* and the catch block (201-213) ends a handler from any of them.  The     *)
(* report route (the second POST of the file, lines 224-309) likewise:     *)
(*   ReportStart   lines 224-229 (getAdminDatabase, query issued)          *)
(*   ReportFetched lines 229-296 (404, reviewsList, generateContent issued)*)
(*   ReportAiDone  lines 284-308 (report response)                         *)
(*                                                                         *)
(* Numbers that may be fractional (rating, sentiment_score) are carried in *)
(* tenths: 25 is 2.5, 916 is 91.6.  Strings the code only measures are     *)
(* carried by their .length.  latency_ms, which no step reads back, is not *)
(* carried.                                                                *)
(***************************************************************************)
EXTENDS Integers, Sequences, FiniteSets, TLC

\* ---------------------------------------------------------------- constants
RATE_LIMIT_WINDOW_MS == 60000
RATE_LIMIT_MAX == 5

\* ------------------------------------------------------------------- bounds
\* Admissions granted in one run of the rate limiter (SpecLimiter).
MaxAdmit == 6
\* Admissions granted in one run of the whole pipeline (Spec).
MaxNew == 2
\* Admissions granted to each client other than the first.
MaxOther == 1
\* Handlers suspended at an await at the same time.
MaxInFlight == 2
\* Pushes the database accepts in one run; beyond it every push is rejected (a
\* storage error).
MaxStore == 1
\* Handlers of the report route suspended at an await at the same time.
MaxReports == 2
\* Admissions granted in one run of both routes together (SpecReport).
MaxSubmit == 2
\* Calls of getFirebaseAdmin in one run of SpecAdmin.
MaxCalls == 4

\* The instants Date.now() takes: the start, the last millisecond inside the
\* window that opens at 0, the window's boundary, and a second past it.
Instants == {0, 59999, 60000, 61000}

\* The instants of a run of the whole pipeline: the start and the boundary.
PipelineInstants == {0, 60000}

VARIABLES
    now,            \* Date.now()
    rateLimitStore, \* Map<string, number[]>: client id -> admission timestamps
    inflight,       \* handlers suspended at an await
    check,          \* the isRateLimited call of the latest step, if it made one:
                    \* its client id, time, the map before it, and its result
    sent,           \* the response sent by the latest step, if it sent one
    admitted,       \* per client id, the times of all its admitted checks (history)
    reviews,        \* the 'reviews' node of the database, in push order
    apps,           \* number of apps in Firebase's registry (getApps().length)
    env,            \* the process environment getFirebaseAdmin reads
    budget,         \* admissions this run may still grant (bounds the run)
    vin, vout,      \* input and result of a stand-alone ReviewFormSchema.safeParse;
                    \* vout is also the result of a stand-alone getFirebaseAdmin
    got,            \* what generateContent settled with in the latest step, if
                    \* that step resumed a handler of the review route
    reports,        \* handlers of the report route suspended at an await
    room            \* pushes the database will still accept (bounds the run)

vars == <<now, rateLimitStore, inflight, check, sent, admitted, reviews, apps, env,
          budget, vin, vout, got, reports, room>>

\* ------------------------------------------------------------ small helpers
Max(a, b) == IF a >= b THEN a ELSE b

\* Mutant of MathCeilDiv: rounding to the nearest integer (Math.round).
MathRoundDiv(n, d) == (2 * n + d) \div (2 * d)

\* Math.ceil(n / d) for an integer n and d > 0.
MathCeilDiv(n, d) == -((-n) \div d)

\* Mutant of MathRound10: truncation (Math.floor).
MathFloor10(x10) == x10 \div 10

\* Math.round(x) of a number in tenths: the nearest integer, halves upwards.
MathRound10(x10) == (x10 + 5) \div 10

RECURSIVE String(_)
\* String(n) for an integer n >= 0: its decimal digits, most significant first.
String(n) == IF n < 10 THEN <<n>> ELSE Append(String(n \div 10), n % 10)

\* ------------------------------------------------------------- getClientIp
\* A header value is a sequence of tokens: " " is white space, "," a comma,
\* any other token a run of other characters.  The empty string is <<>>.
RECURSIVE TrimStart(_)
TrimStart(s) == IF s # <<>> /\ Head(s) = " " THEN TrimStart(Tail(s)) ELSE s

RECURSIVE TrimEnd(_)
TrimEnd(s) ==
    IF s # <<>> /\ s[Len(s)] = " " THEN TrimEnd(SubSeq(s, 1, Len(s) - 1)) ELSE s

\* s.trim()
Trim(s) == TrimEnd(TrimStart(s))

RECURSIVE SplitFirst(_)
\* s.split(',')[0]: the characters before the first comma.
SplitFirst(s) ==
    IF s = <<>> \/ Head(s) = "," THEN <<>> ELSE <<Head(s)>> \o SplitFirst(Tail(s))

\* A header (or request.ip) that is not there, and one holding the string v.
NoValue == [present |-> FALSE, v |-> <<>>]
Value(v) == [present |-> TRUE, v |-> v]

\* JavaScript truthiness of an optional string: there and not empty.
Truthy(x) == x.present /\ x.v # <<>>

\* h = [xff, realIp, ip]: the x-forwarded-for and x-real-ip headers and the
\* runtime's request.ip.
getClientIp(h) ==
    LET first == Trim(SplitFirst(h.xff.v))
    IN  IF Truthy(h.xff) /\ first # <<>> THEN first
        ELSE IF Truthy(h.realIp) THEN Trim(h.realIp.v)
        ELSE IF Truthy(h.ip) THEN h.ip.v
        ELSE <<"unknown">>

\* Mutant of History: one list serves every client.
HistoryShared(store, ip) ==
    IF DOMAIN store # {} THEN store[CHOOSE k \in DOMAIN store : TRUE] ELSE <<>>

\* ----------------------------------------------------------- isRateLimited
\* rateLimitStore.get(ip) ?? []
History(store, ip) == IF ip \in DOMAIN store THEN store[ip] ELSE <<>>

\* Mutant of IsFresh: a timestamp exactly one window old still counts.
IsFreshInclusive(t, at) == at - t <= RATE_LIMIT_WINDOW_MS

\* The filter predicate of line 35.
IsFresh(t, at) == at - t < RATE_LIMIT_WINDOW_MS

\* Mutant of Fresh: nothing is pruned.
FreshUnpruned(history, at) == history

\* history.filter(...)
Fresh(history, at) == SelectSeq(history, LAMBDA t : IsFresh(t, at))

\* Mutant of OverLimit: the limit is checked with > instead of >=.
OverLimitOffByOne(fresh) == Len(fresh) > RATE_LIMIT_MAX

\* The condition of line 37.
OverLimit(fresh) == Len(fresh) >= RATE_LIMIT_MAX

\* Mutant of RetryAfterSec: the milliseconds are rounded down.
RetryAfterSecFloor(fresh, at) ==
    LET oldest == IF fresh # <<>> THEN fresh[1] ELSE at
        retryAfterMs == Max(0, RATE_LIMIT_WINDOW_MS - (at - oldest))
    IN  retryAfterMs \div 1000

\* Lines 38-40.
RetryAfterSec(fresh, at) ==
    LET oldest == IF fresh # <<>> THEN fresh[1] ELSE at
        retryAfterMs == Max(0, RATE_LIMIT_WINDOW_MS - (at - oldest))
    IN  MathCeilDiv(retryAfterMs, 1000)

\* Mutant of Admit: the new timestamp replaces the list instead of joining it.
AdmitOverwrite(store, ip, fresh, at) ==
    [k \in DOMAIN store \cup {ip} |-> IF k = ip THEN <<at>> ELSE store[k]]

\* Lines 43-44: fresh.push(now); rateLimitStore.set(ip, fresh).
Admit(store, ip, fresh, at) ==
    [k \in DOMAIN store \cup {ip} |->
        IF k = ip THEN Append(fresh, at) ELSE store[k]]

\* Mutant of isRateLimited: the attempt is recorded before the limit is checked.
isRateLimitedRecordsDenied(store, ip, at) ==
    LET fresh == Fresh(History(store, ip), at)
    IN  IF OverLimit(fresh)
        THEN [limited |-> TRUE, retryAfterSec |-> RetryAfterSec(fresh, at),
              store |-> Admit(store, ip, fresh, at)]
        ELSE [limited |-> FALSE, retryAfterSec |-> 0,
              store |-> Admit(store, ip, fresh, at)]

\* The whole call: its result and the map it leaves.
isRateLimited(store, ip, at) ==
    LET fresh == Fresh(History(store, ip), at)
    IN  IF OverLimit(fresh)
        THEN [limited |-> TRUE, retryAfterSec |-> RetryAfterSec(fresh, at),
              store |-> store]
        ELSE [limited |-> FALSE, retryAfterSec |-> 0,
              store |-> Admit(store, ip, fresh, at)]

\* -------------------------------------------------------------- JSON values
\* One property of a parsed JSON object: not there, null, a string (a label
\* and its .length), a number (in tenths) or an array of strings.
JAbsent == [t |-> "absent", s |-> "", len |-> 0, n10 |-> 0, a |-> <<>>]
JNull == [t |-> "null", s |-> "", len |-> 0, n10 |-> 0, a |-> <<>>]
JStr(s, len) == [t |-> "string", s |-> s, len |-> len, n10 |-> 0, a |-> <<>>]
JNum(n10) == [t |-> "number", s |-> "", len |-> 0, n10 |-> n10, a |-> <<>>]
JArr(a) == [t |-> "array", s |-> "", len |-> 0, n10 |-> 0, a |-> a]

\* ------------------------------------------------------- ReviewFormSchema
\* z.number().min(1).max(5)
RatingOk(r) == r.t = "number" /\ r.n10 >= 10 /\ r.n10 <= 50

\* Mutant of ReviewOk: the upper bound is exclusive.
ReviewOkExclusive(v) == v.t = "string" /\ v.len >= 5 /\ v.len < 1000

\* z.string().min(5).max(1000)
ReviewOk(v) == v.t = "string" /\ v.len >= 5 /\ v.len <= 1000

\* ReviewFormSchema.safeParse(body).success, body = [kind, rating, review].
ReviewFormSchema(body) ==
    body.kind = "object" /\ RatingOk(body.rating) /\ ReviewOk(body.review)

\* ------------------------------------------------------- AIResponseSchema
AllowedTagSchema == {"Quality", "Price", "Service", "Delivery", "App Experience"}

\* z.string().min(1)
NonEmptyString(x) == x.t = "string" /\ x.len >= 1

\* z.number().min(0).max(100)
SentimentOk(x) == x.t = "number" /\ x.n10 >= 0 /\ x.n10 <= 1000

\* Mutant of TagsOk: tags is required.
TagsOkRequired(x) ==
    x.t = "array" /\ \A i \in 1..Len(x.a) : x.a[i] \in AllowedTagSchema

\* z.array(AllowedTagSchema).default([]): undefined takes the default.
TagsOk(x) ==
    \/ x.t = "absent"
    \/ x.t = "array" /\ \A i \in 1..Len(x.a) : x.a[i] \in AllowedTagSchema

\* Mutant of AIResponseSchema: any object passes.
AIResponseSchemaAnyObject(v) == v.kind = "object"

\* AIResponseSchema.safeParse(v).success, v = [kind, response, summary,
\* action, sentiment_score, tags].
AIResponseSchema(v) ==
    /\ v.kind = "object"
    /\ NonEmptyString(v.response)
    /\ NonEmptyString(v.summary)
    /\ NonEmptyString(v.action)
    /\ SentimentOk(v.sentiment_score)
    /\ TagsOk(v.tags)

\* parsedAi.data.tags: the parsed array, or the default.
ParsedTags(v) == IF v.tags.t = "absent" THEN <<>> ELSE v.tags.a

\* !aiJson of line 154: undefined (nothing parsed) and the falsy JSON values.
Falsy(v) == v.kind \in {"undefined", "null", "false", "zero", "emptyString"}

NoJson == [kind |-> "undefined"]

\* Lines 145-152: text is [present, wellFormed, value]; JSON.parse is tried
\* only on a non-empty text and its exception is swallowed.
ParseAiText(text) ==
    IF text.present /\ text.wellFormed THEN text.value ELSE NoJson

\* Mutant of getFirebaseAdmin: the registry is not consulted.
getFirebaseAdminNoRegistry(n, e) ==
    IF e.dbUrl /\ (e.file = "json" \/ (e.file = "none" /\ e.key \in {"json", "base64"}))
    THEN [threw |-> FALSE, apps |-> n + 1]
    ELSE [threw |-> TRUE, apps |-> n]

\* --------------------------------------------------------- getFirebaseAdmin
\* env = [dbUrl, file, key]: FIREBASE_DATABASE_URL set, serviceAccountKey.json
\* ("none", "json", "garbage") and FIREBASE_SERVICE_ACCOUNT_KEY ("none",
\* "json", "base64", "garbage").  The result: whether it threw, and the
\* registry's size afterwards.
getFirebaseAdmin(n, e) ==
    IF n > 0 THEN [threw |-> FALSE, apps |-> n]
    ELSE IF ~e.dbUrl THEN [threw |-> TRUE, apps |-> n]
    ELSE IF e.file # "none"
         THEN IF e.file = "json" THEN [threw |-> FALSE, apps |-> n + 1]
              ELSE [threw |-> TRUE, apps |-> n]
    ELSE IF e.key # "none"
         THEN IF e.key \in {"json", "base64"} THEN [threw |-> FALSE, apps |-> n + 1]
              ELSE [threw |-> TRUE, apps |-> n]
    ELSE [threw |-> TRUE, apps |-> n]

\* ---------------------------------------------------------------- responses
\* NextResponse.json(body, {status, headers}); headers maps names to values.
\* Mutant of RateLimitedResponse: the header carries milliseconds.
RateLimitedResponseMs(rl) ==
    [status |-> 429,
     body |-> [success |-> FALSE,
               error |-> "Rate limit exceeded. Please try again shortly.",
               retryAfterSec |-> rl.retryAfterSec],
     headers |-> [n \in {"Retry-After"} |-> String(rl.retryAfterSec * 1000)]]

\* Lines 54-66.
RateLimitedResponse(rl) ==
    [status |-> 429,
     body |-> [success |-> FALSE,
               error |-> "Rate limit exceeded. Please try again shortly.",
               retryAfterSec |-> rl.retryAfterSec],
     headers |-> [n \in {"Retry-After"} |-> String(rl.retryAfterSec)]]

\* validationResult.error.flatten(): the fields that failed (formErrors when
\* the body is no object).
Flatten(body) ==
    IF body.kind # "object" THEN {"formErrors"}
    ELSE {f \in {"rating"} : ~RatingOk(body.rating)}
         \cup {f \in {"review"} : ~ReviewOk(body.review)}

\* Mutant of InvalidInputResponse: the failure is reported as a server error.
InvalidInputResponse500(body) ==
    [status |-> 500,
     body |-> [success |-> FALSE, error |-> "Invalid input",
               details |-> Flatten(body)],
     headers |-> <<>>]

\* Lines 74-81.
InvalidInputResponse(body) ==
    [status |-> 400,
     body |-> [success |-> FALSE, error |-> "Invalid input",
               details |-> Flatten(body)],
     headers |-> <<>>]

\* Mutant of ParseFailedResponse: a canned reply instead of an error.
ParseFailedResponseCanned ==
    [status |-> 200,
     body |-> [success |-> TRUE, message |-> "Thank you for your feedback."],
     headers |-> <<>>]

\* Lines 155-162.
ParseFailedResponse ==
    [status |-> 500,
     body |-> [success |-> FALSE, error |-> "AI response parsing failed",
               details |-> "No parsed content or valid text returned"],
     headers |-> <<>>]

\* Lines 168-174.
InvalidStructureResponse ==
    [status |-> 500,
     body |-> [success |-> FALSE, error |-> "Invalid AI response structure"],
     headers |-> <<>>]

\* Mutant of SuccessResponse: the message is the summary, not the reply.
SuccessResponseSummary(aiData) ==
    [status |-> 200,
     body |-> [success |-> TRUE, message |-> aiData.summary],
     headers |-> <<>>]

\* Lines 196-199.
SuccessResponse(aiData) ==
    [status |-> 200,
     body |-> [success |-> TRUE, message |-> aiData.response],
     headers |-> <<>>]

\* Mutant of CatchResponse: a thrown error is reported as a bad request.
CatchResponseBadRequest(msg) ==
    [status |-> 400,
     body |-> [success |-> FALSE, error |-> "Invalid input",
               details |-> msg, stack |-> TRUE],
     headers |-> <<>>]

\* Lines 201-212: the catch block, for a thrown Error with message msg.
CatchResponse(msg) ==
    [status |-> 500,
     body |-> [success |-> FALSE, error |-> "Internal server error",
               details |-> msg, stack |-> TRUE],
     headers |-> <<>>]

\* Lines 179-189: reviewData.
ReviewData(h, aiData, at) ==
    [rating |-> h.data.rating,
     reviewText |-> h.data.review,
     ai_response |-> aiData.response,
     ai_summary |-> aiData.summary,
     ai_action |-> aiData.action,
     ai_sentiment |-> MathRound10(aiData.sentiment_score),
     ai_tags |-> aiData.tags,
     createdAt |-> at]

\* ------------------------------------------------------------------ inputs
Headers(xff, realIp, ip) == [xff |-> xff, realIp |-> realIp, ip |-> ip]

HeaderInputs ==
    { Headers(Value(<<" ", "10.0.0.1", " ", ",", "10.0.0.9">>), NoValue, NoValue),
      Headers(Value(<<" ", ",", "10.0.0.9">>), Value(<<"10.0.0.1", " ">>), NoValue),
      Headers(Value(<<>>), NoValue, Value(<<"10.0.0.1">>)),
      Headers(Value(<<" ", ",", "10.0.0.9">>), NoValue, NoValue),
      Headers(NoValue, NoValue, Value(<<>>)),
      Headers(NoValue, NoValue, NoValue) }

ClientIds == {getClientIp(h) : h \in HeaderInputs}

\* What request.json() yields: a syntax error, or the parsed body.
BadJsonBody ==
    [syntaxOk |-> FALSE, kind |-> "undefined", rating |-> JAbsent, review |-> JAbsent]

BodyInputs ==
    {BadJsonBody}
    \cup [syntaxOk : {TRUE}, kind : {"null"}, rating : {JAbsent}, review : {JAbsent}]
    \cup [syntaxOk : {TRUE}, kind : {"object"},
          rating : {JNum(0), JNum(25), JNum(50)},
          review : {JStr("r", 4), JStr("r", 5)}]

\* The bodies the handler turns away.
RejectedBodies == {b \in BodyInputs : ~b.syntaxOk \/ ~ReviewFormSchema(b)}

AiObject(response, score, tags) ==
    [kind |-> "object", response |-> response, summary |-> JStr("s", 2),
     action |-> JStr("a", 4), sentiment_score |-> score, tags |-> tags]

AiValues ==
    { [kind |-> "null"],
      AiObject(JStr("Sorry", 5), JNum(916), JAbsent),
      AiObject(JStr("Thanks!", 7), JNum(920),
               JArr(<<"Quality", "Price", "Service", "Delivery">>)),
      AiObject(JStr("Thanks!", 7), JNum(1010), JArr(<<"Service">>)),
      AiObject(JStr("Thanks!", 7), JNum(920), JArr(<<"Speed">>)),
      AiObject(JStr("", 0), JNum(920), JArr(<<>>)) }

\* What generateContent yields: it throws, or response.text.
AiOutcomes ==
    { [threw |-> TRUE, text |-> [present |-> FALSE, wellFormed |-> FALSE, value |-> NoJson]],
      [threw |-> FALSE, text |-> [present |-> FALSE, wellFormed |-> FALSE, value |-> NoJson]],
      [threw |-> FALSE, text |-> [present |-> TRUE, wellFormed |-> FALSE, value |-> NoJson]] }
    \cup { [threw |-> FALSE, text |-> [present |-> TRUE, wellFormed |-> TRUE, value |-> v]]
           : v \in AiValues }

Envs ==
    { [dbUrl |-> TRUE, file |-> "none", key |-> "json"],
      [dbUrl |-> FALSE, file |-> "none", key |-> "json"] }

\* The inputs of a stand-alone ReviewFormSchema.safeParse.
ValidatorInputs ==
    [syntaxOk : {TRUE}, kind : {"object"},
     rating : {JAbsent, JNull, JStr("3", 1)}
              \cup {JNum(n) : n \in {-10, 0, 9, 10, 25, 30, 50, 51, 60}},
     review : {JAbsent, JNum(50)}
              \cup {JStr("r", n) : n \in {0, 4, 5, 6, 999, 1000, 1001}}]

\* ---------------------------------------------------------------- handlers
\* parsedAi.data
AiData(v) ==
    [response |-> v.response.s, summary |-> v.summary.s, action |-> v.action.s,
     sentiment_score |-> v.sentiment_score.n10, tags |-> ParsedTags(v)]

NoData == [rating |-> 0, review |-> JAbsent]
NoAiData ==
    [response |-> "", summary |-> "", action |-> "", sentiment_score |-> 0,
     tags |-> <<>>]
NoDoc ==
    [rating |-> 0, reviewText |-> JAbsent, ai_response |-> "", ai_summary |-> "",
     ai_action |-> "", ai_sentiment |-> 0, ai_tags |-> <<>>, createdAt |-> 0]

\* A response as sent, with the steps its handler took.
Sent(resp, trace) == [resp |-> resp, trace |-> trace]

NoResp == Sent([status |-> 0, body |-> [success |-> FALSE], headers |-> <<>>], <<>>)

\* No generateContent call settled in this step.
NoOutcome == [settled |-> FALSE]

NoCheck ==
    [called |-> FALSE, hd |-> Headers(NoValue, NoValue, NoValue), ip |-> <<>>, at |-> 0, before |-> <<>>, limited |-> FALSE,
     retryAfterSec |-> 0]

FirstClient == <<"10.0.0.1">>

\* The window of a client that used three admissions at time 0.
PriorWindow == <<0, 0, 0>>

\* The least handler slot that is free.
FreeSlot == CHOOSE i \in 1..(MaxInFlight + 1) :
                /\ \A h \in inflight : h.id # i
                /\ \A j \in 1..(i - 1) : \E h \in inflight : h.id = j

\* What every run starts from, whatever it then exercises.
InitCommon ==
    /\ now = 0
    /\ inflight = {}
    /\ check = NoCheck
    /\ sent = NoResp
    /\ reviews = <<>>
    /\ apps = 0
    /\ env \in Envs
    /\ vout = [done |-> FALSE, success |-> FALSE]
    /\ got = NoOutcome
    /\ reports = {}
    /\ room = MaxStore

\* The whole pipeline.  The process is fresh, or the first client has already
\* used three admissions at time 0 and their handlers have ended.
Init ==
    /\ InitCommon
    /\ \/ /\ rateLimitStore = <<>>
          /\ admitted = [c \in ClientIds |-> <<>>]
       \/ /\ rateLimitStore = [c \in {FirstClient} |-> PriorWindow]
          /\ admitted = [c \in ClientIds |->
                            IF c = FirstClient THEN PriorWindow ELSE <<>>]
    /\ budget = MaxNew
    /\ vin = BadJsonBody

\* Date.now() moves on.
Tick(T) ==
    /\ \E t \in T : t > now /\ now' = t
    /\ check' = NoCheck
    /\ sent' = NoResp
    /\ got' = NoOutcome
    /\ UNCHANGED <<rateLimitStore, inflight, admitted, reviews, apps, env, budget,
                   vin, vout, reports, room>>

\* POST lines 48-70: up to the first await (request.json()).
Start(hd) ==
    LET ip == getClientIp(hd)
        rl == isRateLimited(rateLimitStore, ip, now)
    IN  /\ \/ rl.limited
           \/ /\ Cardinality(inflight) < MaxInFlight
              /\ budget > 0
              /\ ip # FirstClient => Len(admitted[ip]) < MaxOther
        /\ rateLimitStore' = rl.store
        /\ check' = [called |-> TRUE, hd |-> hd, ip |-> ip, at |-> now,
                     before |-> rateLimitStore, limited |-> rl.limited,
                     retryAfterSec |-> rl.retryAfterSec]
        /\ IF rl.limited
           THEN /\ sent' = Sent(RateLimitedResponse(rl), <<"rateLimit">>)
                /\ UNCHANGED <<inflight, admitted, budget>>
           ELSE /\ inflight' = inflight \cup
                        {[id |-> FreeSlot, pc |-> "json", data |-> NoData,
                          aiData |-> NoAiData, doc |-> NoDoc,
                          trace |-> <<"rateLimit", "json">>]}
                /\ admitted' = [admitted EXCEPT ![ip] = Append(@, now)]
                /\ budget' = budget - 1
                /\ sent' = NoResp
        /\ got' = NoOutcome
        /\ UNCHANGED <<now, reviews, apps, env, vin, vout, reports, room>>

\* Mutant of Finish: the response is sent and the handler stays suspended.
FinishKeepsHandler(h, resp, more) ==
    /\ inflight' = inflight
    /\ sent' = Sent(resp, h.trace \o more)

\* The handler h ends with response resp after the steps more.
Finish(h, resp, more) ==
    /\ inflight' = inflight \ {h}
    /\ sent' = Sent(resp, h.trace \o more)

\* The handler h goes on, as g, to its next await.
Continue(h, g) ==
    /\ inflight' = (inflight \ {h}) \cup {g}
    /\ sent' = NoResp

\* Mutant of BodyDone: a rejected body gives the newest slot of each list back.
BodyDoneRefunds(h, b) ==
    /\ h.pc = "json"
    /\ IF ~b.syntaxOk
       THEN Finish(h, CatchResponse("Unexpected token in JSON"), <<"catch">>)
       ELSE IF ~ReviewFormSchema(b)
       THEN Finish(h, InvalidInputResponse(b), <<"validate", "invalid">>)
       ELSE Continue(h, [h EXCEPT !.pc = "ai",
                                  !.data = [rating |-> b.rating.n10, review |-> b.review],
                                  !.trace = @ \o <<"validate", "ai">>])
    /\ rateLimitStore' =
            IF b.syntaxOk /\ ReviewFormSchema(b) THEN rateLimitStore
            ELSE [c \in DOMAIN rateLimitStore |->
                    SubSeq(rateLimitStore[c], 1, Len(rateLimitStore[c]) - 1)]
    /\ check' = NoCheck
    /\ got' = NoOutcome
    /\ UNCHANGED <<now, admitted, reviews, apps, env, budget,
                   vin, vout, reports, room>>

\* POST lines 70-136: request.json() settles with b; validation; the AI call
\* is issued.
BodyDone(h, b) ==
    /\ h.pc = "json"
    /\ IF ~b.syntaxOk
       THEN Finish(h, CatchResponse("Unexpected token in JSON"), <<"catch">>)
       ELSE IF ~ReviewFormSchema(b)
       THEN Finish(h, InvalidInputResponse(b), <<"validate", "invalid">>)
       ELSE Continue(h, [h EXCEPT !.pc = "ai",
                                  !.data = [rating |-> b.rating.n10, review |-> b.review],
                                  !.trace = @ \o <<"validate", "ai">>])
    /\ check' = NoCheck
    /\ got' = NoOutcome
    /\ UNCHANGED <<now, rateLimitStore, admitted, reviews, apps, env, budget,
                   vin, vout, reports, room>>

\* POST lines 138-193: generateContent settles with out; parse, schema check,
\* reviewData, getAdminDatabase; the push is issued.
AiDone(h, out) ==
    LET aiJson == ParseAiText(out.text)
        fb == getFirebaseAdmin(apps, env)
    IN  /\ h.pc = "ai"
        /\ IF out.threw
           THEN /\ Finish(h, CatchResponse("generateContent failed"), <<"catch">>)
                /\ UNCHANGED apps
           ELSE IF Falsy(aiJson)
           THEN /\ Finish(h, ParseFailedResponse, <<"parse">>)
                /\ UNCHANGED apps
           ELSE IF ~AIResponseSchema(aiJson)
           THEN /\ Finish(h, InvalidStructureResponse, <<"parse", "schema">>)
                /\ UNCHANGED apps
           ELSE IF fb.threw
           THEN /\ Finish(h, CatchResponse("Firebase is not configured"),
                          <<"parse", "schema", "db", "catch">>)
                /\ apps' = fb.apps
           ELSE /\ Continue(h, [h EXCEPT !.pc = "push",
                                  !.aiData = AiData(aiJson),
                                  !.doc = ReviewData(h, AiData(aiJson), now),
                                  !.trace = @ \o <<"parse", "schema", "db", "push">>])
                /\ apps' = fb.apps
        /\ check' = NoCheck
        /\ got' = [settled |-> TRUE, out |-> out]
        /\ UNCHANGED <<now, rateLimitStore, admitted, reviews, env, budget, vin, vout,
                       reports, room>>

\* Mutant of PushDone: a rejected push is issued once more.
PushDoneRetry(h, ok) ==
    /\ h.pc = "push"
    /\ IF ok
       THEN /\ room > 0
            /\ room' = room - 1
            /\ reviews' = Append(reviews, h.doc)
            /\ Finish(h, SuccessResponse(h.aiData), <<"pushed">>)
       ELSE IF \A i \in 1..Len(h.trace) : h.trace[i] # "pushFailed"
       THEN /\ UNCHANGED <<reviews, room>>
            /\ Continue(h, [h EXCEPT !.trace = @ \o <<"pushFailed", "push">>])
       ELSE /\ UNCHANGED <<reviews, room>>
            /\ Finish(h, CatchResponse("push rejected"), <<"pushFailed", "catch">>)
    /\ check' = NoCheck
    /\ got' = NoOutcome
    /\ UNCHANGED <<now, rateLimitStore, admitted, apps, env, budget, vin, vout, reports>>

\* POST lines 193-199: reviewsRef.push settles: the record is stored and the
\* handler answers, or the push is rejected and the catch block answers.
PushDone(h, ok) ==
    /\ h.pc = "push"
    /\ IF ok
       THEN /\ room > 0
            /\ room' = room - 1
            /\ reviews' = Append(reviews, h.doc)
            /\ Finish(h, SuccessResponse(h.aiData), <<"pushed">>)
       ELSE /\ UNCHANGED <<reviews, room>>
            /\ Finish(h, CatchResponse("push rejected"), <<"pushFailed", "catch">>)
    /\ check' = NoCheck
    /\ got' = NoOutcome
    /\ UNCHANGED <<now, rateLimitStore, admitted, apps, env, budget, vin, vout, reports>>

Next ==
    \/ Tick(PipelineInstants)
    \/ \E hd \in HeaderInputs : Start(hd)
    \/ \E h \in inflight, b \in BodyInputs : BodyDone(h, b)
    \/ \E h \in inflight, out \in AiOutcomes : AiDone(h, out)
    \/ \E h \in inflight, ok \in BOOLEAN : PushDone(h, ok)

Spec == Init /\ [][Next]_vars

\* ------------------------------------------------ the rate limiter at length
\* A fresh process and clients whose bodies the handler turns away: enough
\* admissions to fill a window and to outlive it.
InitLimiter ==
    /\ InitCommon
    /\ rateLimitStore = <<>>
    /\ admitted = [c \in ClientIds |-> <<>>]
    /\ budget = MaxAdmit
    /\ vin = BadJsonBody

NextLimiter ==
    \/ Tick(Instants)
    \/ \E hd \in HeaderInputs : Start(hd)
    \/ \E h \in inflight, b \in RejectedBodies : BodyDone(h, b)

SpecLimiter == InitLimiter /\ [][NextLimiter]_vars

\* ------------------------------------------ ReviewFormSchema on its own
InitValidate ==
    /\ InitCommon
    /\ rateLimitStore = <<>>
    /\ admitted = [c \in ClientIds |-> <<>>]
    /\ budget = 0
    /\ vin \in ValidatorInputs

\* ReviewFormSchema.safeParse(vin)
Validate ==
    /\ ~vout.done
    /\ vout' = [done |-> TRUE, success |-> ReviewFormSchema(vin)]
    /\ UNCHANGED <<now, rateLimitStore, inflight, check, sent, admitted, reviews,
                   apps, env, budget, vin, got, reports, room>>

NextValidate == Validate

SpecValidate == InitValidate /\ [][NextValidate]_vars

\* ------------------------------------------------------------ the report route
\* limitToLast(50)
REPORT_LIMIT == 50

\* Milliseconds in a day: toISOString() up to the 'T' names the UTC day.
MS_PER_DAY == 86400000

\* Mutant of limitToLast: the first n children (limitToFirst).
limitToFirst(s, n) == IF Len(s) <= n THEN s ELSE SubSeq(s, 1, n)

\* The last n children of a node, in key order (push keys sort by push time).
limitToLast(s, n) == IF Len(s) <= n THEN s ELSE SubSeq(s, Len(s) - n + 1, Len(s))

\* Mutant of NoReviews: the test is for undefined, which val() never returns.
NoReviewsIfUndefined(snapshot) == FALSE

\* !reviewsData: snapshot.val() is null when the query matched no child.
NoReviews(snapshot) == snapshot = <<>>

\* Truthiness of a JSON value.
JTruthy(x) ==
    \/ x.t = "string" /\ x.len > 0
    \/ x.t = "number" /\ x.n10 # 0
    \/ x.t = "array"

\* r.reviewText || r.review
TextOf(r) ==
    IF "reviewText" \in DOMAIN r /\ JTruthy(r.reviewText) THEN r.reviewText
    ELSE IF "review" \in DOMAIN r THEN r.review
    ELSE JAbsent

\* r.createdAt || r.timestamp: a number of milliseconds, or undefined.
TimeOf(r) ==
    IF "createdAt" \in DOMAIN r /\ r.createdAt # 0
    THEN [defined |-> TRUE, ms |-> r.createdAt]
    ELSE IF "timestamp" \in DOMAIN r
    THEN [defined |-> TRUE, ms |-> r.timestamp]
    ELSE [defined |-> FALSE, ms |-> 0]

\* Mutant of ToISOStringThrows: an invalid date is formatted without an error.
ToISOStringLenient(t) == FALSE

\* new Date(t).toISOString() throws a RangeError on an invalid date.
ToISOStringThrows(t) == ~t.defined

\* new Date(ms).toISOString().split('T')[0]: the UTC calendar day, carried as
\* the number of whole days since 1970-01-01.
IsoDate(ms) == ms \div MS_PER_DAY

\* One element of reviewsList.
Simplify(r) ==
    [rating |-> r.rating, text |-> TextOf(r), date |-> IsoDate(TimeOf(r).ms),
     sentiment |-> r.ai_sentiment, tags |-> r.ai_tags]

\* Object.values(reviewsData).map(...)
reviewsList(snapshot) == [i \in 1..Len(snapshot) |-> Simplify(snapshot[i])]

NoReviewsResponse ==
    [status |-> 404, body |-> [message |-> "No reviews found to analyze."],
     headers |-> <<>>]

\* response.text || "Failed to generate report."
ReportResponse(text) ==
    [status |-> 200,
     body |-> [report |-> IF text.present THEN text.value
                          ELSE "Failed to generate report."],
     headers |-> <<>>]

ReportErrorResponse ==
    [status |-> 500, body |-> [error |-> "Internal Server Error"], headers |-> <<>>]

\* What generateContent settles with for a report: a rejection, no text, or
\* markdown.
ReportOutcomes ==
    { [threw |-> TRUE, text |-> [present |-> FALSE, value |-> ""]],
      [threw |-> FALSE, text |-> [present |-> FALSE, value |-> ""]],
      [threw |-> FALSE, text |-> [present |-> TRUE, value |-> "# Executive Intelligence Report"]] }

\* A record written before the fields were renamed.
LegacyDoc ==
    [rating |-> 40, review |-> JStr("old", 9), timestamp |-> 3 * MS_PER_DAY + 1,
     ai_response |-> "Thanks", ai_summary |-> "s", ai_action |-> "a",
     ai_sentiment |-> 70, ai_tags |-> <<"Price">>]

\* A record that has both the legacy and the current fields, with different
\* values.
BothDoc ==
    [rating |-> 20, reviewText |-> JStr("new", 12), review |-> JStr("old", 9),
     createdAt |-> 4 * MS_PER_DAY + 7, timestamp |-> 2 * MS_PER_DAY + 7,
     ai_response |-> "Thanks", ai_summary |-> "s", ai_action |-> "a",
     ai_sentiment |-> 30, ai_tags |-> <<>>]

\* A record whose reviewText is the empty string beside a legacy review.
BlankDoc ==
    [rating |-> 30, reviewText |-> JStr("", 0), review |-> JStr("old", 9),
     createdAt |-> 4 * MS_PER_DAY + 7, timestamp |-> 2 * MS_PER_DAY + 7,
     ai_response |-> "Thanks", ai_summary |-> "s", ai_action |-> "a",
     ai_sentiment |-> 50, ai_tags |-> <<>>]

\* A record that has neither createdAt nor timestamp.
UndatedDoc ==
    [rating |-> 10, reviewText |-> JStr("bad", 8),
     ai_response |-> "Sorry", ai_summary |-> "s", ai_action |-> "a",
     ai_sentiment |-> 10, ai_tags |-> <<"Service">>]

\* The i-th of a run of records pushed on one day, told apart by ai_sentiment.
BulkDoc(i) ==
    [rating |-> 50, reviewText |-> JStr("bulk", 6),
     ai_response |-> "Thanks", ai_summary |-> "s", ai_action |-> "a",
     ai_sentiment |-> i, ai_tags |-> <<>>, createdAt |-> MS_PER_DAY + i]

\* One record more than a report fetches.
BulkStore == [i \in 1..(REPORT_LIMIT + 1) |-> BulkDoc(i)]

\* What the 'reviews' node holds when the process starts.
SeedStores ==
    {<<>>, <<LegacyDoc>>, <<LegacyDoc, BothDoc>>, <<BothDoc, BlankDoc>>,
     <<LegacyDoc, UndatedDoc>>, BulkStore}

\* The day the process starts.
ReportEpoch == 5 * MS_PER_DAY

\* The least report-handler slot that is free.
FreeReportSlot == CHOOSE i \in 1..(MaxReports + 1) :
                      /\ \A r \in reports : r.id # i
                      /\ \A j \in 1..(i - 1) : \E r \in reports : r.id = j

\* The report handler r ends with response resp after the steps more.
FinishReport(r, resp, more) ==
    /\ reports' = reports \ {r}
    /\ sent' = Sent(resp, r.trace \o more)

\* generate-report POST lines 224-229: getAdminDatabase, then the query is
\* issued.
ReportStart ==
    LET fb == getFirebaseAdmin(apps, env)
    IN  /\ Cardinality(reports) < MaxReports
        /\ apps' = fb.apps
        /\ IF fb.threw
           THEN /\ sent' = Sent(ReportErrorResponse, <<"report", "db", "catch">>)
                /\ UNCHANGED reports
           ELSE /\ reports' = reports \cup
                        {[id |-> FreeReportSlot, pc |-> "fetch", list |-> <<>>,
                          trace |-> <<"report", "db", "fetch">>]}
                /\ sent' = NoResp
        /\ check' = NoCheck
        /\ got' = NoOutcome
        /\ UNCHANGED <<now, rateLimitStore, inflight, admitted, reviews, env, budget,
                       vin, vout, room>>

\* Mutant of ReportFetched: legacy records are rewritten under the current
\* field names when they are read.
ReportFetchedMigrates(r, ok) ==
    LET snapshot == limitToLast(reviews, REPORT_LIMIT)
    IN  /\ r.pc = "fetch"
        /\ IF ~ok
           THEN FinishReport(r, ReportErrorResponse, <<"catch">>)
           ELSE IF NoReviews(snapshot)
           THEN FinishReport(r, NoReviewsResponse, <<"fetched">>)
           ELSE IF \E i \in 1..Len(snapshot) : ToISOStringThrows(TimeOf(snapshot[i]))
           THEN FinishReport(r, ReportErrorResponse, <<"fetched", "list", "catch">>)
           ELSE /\ reports' = (reports \ {r}) \cup
                        {[r EXCEPT !.pc = "ai", !.list = reviewsList(snapshot),
                                   !.trace = @ \o <<"fetched", "list", "ai">>]}
                /\ sent' = NoResp
        /\ reviews' = [i \in 1..Len(reviews) |->
                          IF "review" \in DOMAIN reviews[i]
                          THEN [rating |-> reviews[i].rating,
                                reviewText |-> reviews[i].review,
                                ai_response |-> reviews[i].ai_response,
                                ai_summary |-> reviews[i].ai_summary,
                                ai_action |-> reviews[i].ai_action,
                                ai_sentiment |-> reviews[i].ai_sentiment,
                                ai_tags |-> reviews[i].ai_tags,
                                createdAt |-> reviews[i].timestamp]
                          ELSE reviews[i]]
        /\ check' = NoCheck
        /\ got' = NoOutcome
        /\ UNCHANGED <<now, rateLimitStore, inflight, admitted, apps, env,
                       budget, vin, vout, room>>

\* generate-report POST lines 229-296: the query settles, with the children
\* the node has at that moment or with a rejection; the 404, or reviewsList
\* and the AI call.
ReportFetched(r, ok) ==
    LET snapshot == limitToLast(reviews, REPORT_LIMIT)
    IN  /\ r.pc = "fetch"
        /\ IF ~ok
           THEN FinishReport(r, ReportErrorResponse, <<"catch">>)
           ELSE IF NoReviews(snapshot)
           THEN FinishReport(r, NoReviewsResponse, <<"fetched">>)
           ELSE IF \E i \in 1..Len(snapshot) : ToISOStringThrows(TimeOf(snapshot[i]))
           THEN FinishReport(r, ReportErrorResponse, <<"fetched", "list", "catch">>)
           ELSE /\ reports' = (reports \ {r}) \cup
                        {[r EXCEPT !.pc = "ai", !.list = reviewsList(snapshot),
                                   !.trace = @ \o <<"fetched", "list", "ai">>]}
                /\ sent' = NoResp
        /\ check' = NoCheck
        /\ got' = NoOutcome
        /\ UNCHANGED <<now, rateLimitStore, inflight, admitted, reviews, apps, env,
                       budget, vin, vout, room>>

\* generate-report POST lines 284-308: generateContent settles with out.
ReportAiDone(r, out) ==
    /\ r.pc = "ai"
    /\ IF out.threw
       THEN FinishReport(r, ReportErrorResponse, <<"catch">>)
       ELSE FinishReport(r, ReportResponse(out.text), <<"report">>)
    /\ check' = NoCheck
    /\ got' = NoOutcome
    /\ UNCHANGED <<now, rateLimitStore, inflight, admitted, reviews, apps, env,
                   budget, vin, vout, room>>

\* What the review route is given while reports run: one client, one valid
\* body, and an AI call that fails or returns a valid analysis.
ReportRunHeaders == {Headers(NoValue, Value(<<"10.0.0.1", " ">>), NoValue)}

ReportRunBodies ==
    {[syntaxOk |-> TRUE, kind |-> "object", rating |-> JNum(50), review |-> JStr("r", 5)]}

ReportRunAiOutcomes ==
    {out \in AiOutcomes :
        \/ out.threw
        \/ out.text.wellFormed /\ AIResponseSchema(out.text.value)
                               /\ out.text.value.tags.t = "absent"}

\* Both routes in one process, over a store that is empty or holds a legacy
\* record.
InitReport ==
    /\ now = ReportEpoch
    /\ rateLimitStore = <<>>
    /\ inflight = {}
    /\ check = NoCheck
    /\ sent = NoResp
    /\ admitted = [c \in ClientIds |-> <<>>]
    /\ reviews \in SeedStores
    /\ apps = 0
    /\ env \in Envs
    /\ budget = MaxSubmit
    /\ vin = BadJsonBody
    /\ vout = [done |-> FALSE, success |-> FALSE]
    /\ got = NoOutcome
    /\ reports = {}
    /\ room = MaxStore

NextReport ==
    \/ \E hd \in ReportRunHeaders : Start(hd)
    \/ \E h \in inflight, b \in ReportRunBodies : BodyDone(h, b)
    \/ \E h \in inflight, out \in ReportRunAiOutcomes : AiDone(h, out)
    \/ \E h \in inflight, ok \in BOOLEAN : PushDone(h, ok)
    \/ ReportStart
    \/ \E r \in reports, ok \in BOOLEAN : ReportFetched(r, ok)
    \/ \E r \in reports, out \in ReportOutcomes : ReportAiDone(r, out)

SpecReport == InitReport /\ [][NextReport]_vars

\* ------------------------------------------------- the shared "unknown" window
\* Five requests without any address were admitted at time 0 and their
\* handlers have ended.
UnknownClient == <<"unknown">>

FullWindow == <<0, 0, 0, 0, 0>>

InitShared ==
    /\ InitCommon
    /\ rateLimitStore = [c \in {UnknownClient} |-> FullWindow]
    /\ admitted = [c \in ClientIds |-> IF c = UnknownClient THEN FullWindow ELSE <<>>]
    /\ budget = MaxNew
    /\ vin = BadJsonBody

NextShared ==
    \/ Tick(Instants)
    \/ \E hd \in HeaderInputs : Start(hd)
    \/ \E h \in inflight, b \in RejectedBodies : BodyDone(h, b)

SpecShared == InitShared /\ [][NextShared]_vars

\* ------------------------------------------- the review route with fair awaits
\* The first client used four admissions at time 0, so that the second new
\* request of the window is denied.
AlmostFullWindow == <<0, 0, 0, 0>>

\* Bodies that are no JSON, invalid, and valid.
LiveBodies ==
    {BadJsonBody,
     [syntaxOk |-> TRUE, kind |-> "object", rating |-> JNum(0), review |-> JStr("r", 4)],
     [syntaxOk |-> TRUE, kind |-> "object", rating |-> JNum(50), review |-> JStr("r", 5)]}

InitLive ==
    /\ InitCommon
    /\ \/ /\ rateLimitStore = <<>>
          /\ admitted = [c \in ClientIds |-> <<>>]
       \/ /\ rateLimitStore = [c \in {FirstClient} |-> AlmostFullWindow]
          /\ admitted = [c \in ClientIds |->
                            IF c = FirstClient THEN AlmostFullWindow ELSE <<>>]
    /\ budget = MaxSubmit
    /\ vin = BadJsonBody

\* An awaited promise of handler number i settles: request.json(),
\* generateContent or push.
Settle(i) ==
    \E h \in inflight :
        /\ h.id = i
        /\ \/ \E b \in LiveBodies : BodyDone(h, b)
           \/ \E out \in AiOutcomes : AiDone(h, out)
           \/ \E ok \in BOOLEAN : PushDone(h, ok)

NextLive ==
    \/ \E hd \in ReportRunHeaders : Start(hd)
    \/ \E i \in 1..MaxInFlight : Settle(i)

\* Every awaited promise settles in the end.
SpecLive ==
    InitLive /\ [][NextLive]_vars /\ \A i \in 1..MaxInFlight : WF_vars(Settle(i))

\* ------------------------------------------ getFirebaseAdmin on its own
\* Every environment getFirebaseAdmin can find.
AdminEnvs ==
    [dbUrl : BOOLEAN, file : {"none", "json", "garbage"},
     key : {"none", "json", "base64", "garbage"}]

InitAdmin ==
    /\ now = 0
    /\ rateLimitStore = <<>>
    /\ inflight = {}
    /\ check = NoCheck
    /\ sent = NoResp
    /\ admitted = [c \in ClientIds |-> <<>>]
    /\ reviews = <<>>
    /\ apps = 0
    /\ env \in AdminEnvs
    /\ budget = MaxCalls
    /\ vin = BadJsonBody
    /\ vout = [done |-> FALSE, success |-> FALSE]
    /\ got = NoOutcome
    /\ reports = {}
    /\ room = MaxStore

\* getFirebaseAdmin()
CallAdmin ==
    LET fb == getFirebaseAdmin(apps, env)
    IN  /\ budget > 0
        /\ budget' = budget - 1
        /\ apps' = fb.apps
        /\ vout' = [done |-> TRUE, success |-> ~fb.threw]
        /\ UNCHANGED <<now, rateLimitStore, inflight, check, sent, admitted, reviews,
                       env, vin, got, reports, room>>

\* Between two calls the environment variables or the key file are changed.
SetEnv(e) ==
    /\ e # env
    /\ env' = e
    /\ UNCHANGED <<now, rateLimitStore, inflight, check, sent, admitted, reviews,
                   apps, budget, vin, vout, got, reports, room>>

NextAdmin ==
    \/ CallAdmin
    \/ \E e \in AdminEnvs : SetEnv(e)

SpecAdmin == InitAdmin /\ [][NextAdmin]_vars

\* ===================================================================
\* Properties
\* ===================================================================
SetMin(S) == CHOOSE x \in S : \A y \in S : x <= y

\* The admissions the checked client had been granted before the latest check.
PriorAdmissions ==
    LET log == admitted[check.ip]
    IN  IF check.limited THEN log ELSE SubSeq(log, 1, Len(log) - 1)

\* How many of them were less than 60,000 ms old at the check.
FreshPriorCount ==
    Cardinality({i \in 1..Len(PriorAdmissions) :
                    check.at - PriorAdmissions[i] < 60000})

\* C1: a check that finds fewer than five admissions of its client less than
\* 60,000 ms old is allowed (the first to fifth of a window), and one that
\* finds five is denied with retryAfterSec > 0 (the sixth).
C1_FiveThenDenied ==
    check.called =>
        /\ FreshPriorCount < 5 => ~check.limited
        /\ FreshPriorCount = 5 => check.limited /\ check.retryAfterSec > 0

\* Five checks of a client were allowed from an empty window and the sixth,
\* with all five still inside the window, is denied.
C1_Witness ==
    /\ check.called /\ check.limited /\ check.retryAfterSec > 0
    /\ Len(admitted[check.ip]) = 5
    /\ FreshPriorCount = 5

\* The timestamps of the log that are less than 60,000 ms older than its last.
WindowOf(log) ==
    IF log = <<>> THEN <<>>
    ELSE SelectSeq(log, LAMBDA t : log[Len(log)] - t < 60000)

\* C2: with handlers suspended at their awaits while others start, every
\* admission is in its client's window (the stored list is the client's
\* admissions not yet 60,000 ms old at its latest admission: none is lost), no
\* client has more than five admissions inside any 60,000 ms window, and a
\* check that finds five fresh admissions is denied.
C2_NoLostUpdate ==
    /\ \A c \in ClientIds :
        /\ History(rateLimitStore, c) = WindowOf(admitted[c])
        /\ \A i \in 1..Len(admitted[c]) :
              Cardinality({j \in 1..Len(admitted[c]) :
                              /\ admitted[c][j] >= admitted[c][i]
                              /\ admitted[c][j] < admitted[c][i] + 60000}) <= 5
    /\ check.called /\ FreshPriorCount >= 5 => check.limited

\* A request is denied while two admitted handlers of the same client are
\* suspended, both counted in the window.
C2_Witness ==
    /\ Cardinality(inflight) = 2
    /\ check.called /\ check.limited
    /\ Len(History(rateLimitStore, check.ip)) = 5

\* C3: a check made when the oldest recorded timestamp of its client is
\* 60,000 ms old or older is allowed, the exact boundary included.
C3_AdmittedAfterWindow ==
    check.called =>
        LET hist == History(check.before, check.ip)
            recorded == {hist[i] : i \in 1..Len(hist)}
        IN  (recorded # {} /\ check.at - SetMin(recorded) >= 60000)
                => ~check.limited

\* A client that used five admissions at 0 is admitted at exactly 60,000.
C3_Witness ==
    /\ check.called /\ ~check.limited
    /\ Len(admitted[check.ip]) = 6
    /\ \A i \in 1..5 : admitted[check.ip][i] = 0
    /\ check.at = 60000

\* C4: a denied check leaves the whole rate-limit map as it was.
C4_DenialRecordsNothing ==
    check.called /\ check.limited => rateLimitStore = check.before

\* A denial, with the client's five timestamps still in the map.
C4_Witness ==
    /\ check.called /\ check.limited
    /\ check.ip \in DOMAIN rateLimitStore
    /\ Len(rateLimitStore[check.ip]) = 5
    /\ check.at = 59999

\* C5: on denial retryAfterSec is the least integer r >= 0 with
\* 1000 * r >= 60000 - (now - oldest), oldest being the earliest timestamp of
\* the client that is still fresh; on admission it is 0.
C5_RetryAfterIsCeiling ==
    check.called =>
        LET hist == History(check.before, check.ip)
            remaining == {hist[i] : i \in {j \in 1..Len(hist) :
                                              check.at - hist[j] < 60000}}
            ms == 60000 - (check.at - SetMin(remaining))
            r == check.retryAfterSec
        IN  IF check.limited
            THEN /\ r >= 0
                 /\ 1000 * r >= ms
                 /\ r = 0 \/ 1000 * (r - 1) < ms
            ELSE r = 0

\* A denial one millisecond before the window ends: the wait is 1 second.
C5_Witness ==
    /\ check.called /\ check.limited
    /\ check.at = 59999
    /\ admitted[check.ip][1] = 0
    /\ check.retryAfterSec = 1

RECURSIVE ParseDecimal(_)
\* The number a sequence of decimal digits writes.
ParseDecimal(d) ==
    IF d = <<>> THEN 0 ELSE 10 * ParseDecimal(SubSeq(d, 1, Len(d) - 1)) + d[Len(d)]

Steps(trace) == {trace[i] : i \in 1..Len(trace)}

\* C6: a denied request is answered in the same step with status 429, the
\* body's retryAfterSec and the Retry-After header both the limiter's wait, and
\* its handler neither validated input, nor called the AI, nor pushed.
C6_DeniedIs429 ==
    check.called /\ check.limited =>
        /\ sent.resp.status = 429
        /\ sent.resp.body.retryAfterSec = check.retryAfterSec
        /\ DOMAIN sent.resp.headers = {"Retry-After"}
        /\ sent.resp.headers["Retry-After"] # <<>>
        /\ \A i \in 1..Len(sent.resp.headers["Retry-After"]) :
              sent.resp.headers["Retry-After"][i] \in 0..9
        /\ ParseDecimal(sent.resp.headers["Retry-After"]) = check.retryAfterSec
        /\ Steps(sent.trace) \cap {"validate", "ai", "push", "pushed"} = {}

\* A denial at time 0 of a client with five admissions at 0: 429, wait 60,
\* while admitted handlers are suspended and a record is stored.
C6_Witness ==
    /\ check.called /\ check.limited
    /\ sent.resp.status = 429
    /\ sent.resp.body.retryAfterSec = 60
    /\ sent.resp.headers["Retry-After"] = <<6, 0>>
    /\ inflight # {}

\* C7: for an integer rating and a string text, safeParse succeeds exactly
\* when 1 <= rating <= 5 and 5 <= length(text) <= 1000.
C7_ValidatorBounds ==
    (vout.done /\ vin.rating.t = "number" /\ vin.rating.n10 % 10 = 0
               /\ vin.review.t = "string") =>
        (vout.success <=>
            /\ vin.rating.n10 \in {10, 20, 30, 40, 50}
            /\ vin.review.len \in 5..1000)

\* Rating 5 with a text of 1000 characters is accepted.
C7_Witness ==
    /\ vout.done /\ vout.success
    /\ vin.rating.n10 = 50
    /\ vin.review.len = 1000

\* C8: a submission whose rating is not an integer never passes validation:
\* no handler holding one is at the AI call or at the push, and no stored
\* record has one.
C8_NonIntegerRatingRejected ==
    /\ \A h \in inflight : h.pc \in {"ai", "push"} => h.data.rating % 10 = 0
    /\ \A i \in 1..Len(reviews) : reviews[i].rating % 10 = 0

\* C9: a handler whose input failed validation answers 400 "Invalid input",
\* having neither called the AI nor pushed a record.
C9_InvalidInputIs400 ==
    "invalid" \in Steps(sent.trace) =>
        /\ sent.resp.status = 400
        /\ sent.resp.body.error = "Invalid input"
        /\ ~sent.resp.body.success
        /\ Steps(sent.trace) \cap {"ai", "parse", "push", "pushed"} = {}

\* A 400 whose handler went through the rate limiter and validation only.
C9_Witness ==
    /\ sent.resp.status = 400
    /\ sent.trace = <<"rateLimit", "json", "validate", "invalid">>
    /\ sent.resp.body.details = {"rating", "review"}

\* C10: a step that answers 200 appends exactly one record, whose ai_response
\* is the message; no other step changes the store; a handler whose push
\* failed answers 500.
C10_SuccessAfterAppend ==
    [][/\ sent'.resp.status = 200 =>
            /\ Len(reviews') = Len(reviews) + 1
            /\ SubSeq(reviews', 1, Len(reviews)) = reviews
            /\ reviews'[Len(reviews')].ai_response = sent'.resp.body.message
            /\ sent'.resp.body.success
            /\ Len(SelectSeq(sent'.trace, LAMBDA e : e = "pushed")) = 1
       /\ reviews' # reviews => sent'.resp.status = 200
       /\ "pushFailed" \in Steps(sent'.trace) =>
            /\ sent'.resp.status = 500
            /\ ~sent'.resp.body.success
            /\ reviews' = reviews]_vars

\* A 200 with the message "Sorry", which is the stored record's ai_response.
C10_Witness ==
    /\ sent.resp.status = 200
    /\ sent.resp.body.message = "Sorry"
    /\ Len(reviews) = 1
    /\ reviews[1].ai_response = "Sorry"

\* ------------------------------------------------------- the stages of a request
\* The stages of the review route in the order the handler reaches them.
StageOrder ==
    <<"rateLimit", "json", "validate", "ai", "parse", "schema", "db", "push", "pushed">>

\* The marks a handler leaves when a stage fails.
FailureMarks == {"invalid", "catch", "pushFailed"}

IsPrefix(s, t) == Len(s) <= Len(t) /\ SubSeq(t, 1, Len(s)) = s

\* The stages are taken in order, none skipped, none repeated, and nothing but
\* failure marks follows the first failure mark.
InStageOrder(trace) ==
    /\ IsPrefix(SelectSeq(trace, LAMBDA e : e \notin FailureMarks), StageOrder)
    /\ \A i, j \in 1..Len(trace) :
            i < j /\ trace[i] \in FailureMarks => trace[j] \in FailureMarks

\* A record built from a body that passed ReviewFormSchema but for the rating's
\* integrality and from an AI value whose response passed AIResponseSchema.
FromCheckedInput(doc) ==
    /\ doc.rating >= 10 /\ doc.rating <= 50
    /\ doc.reviewText.t = "string"
    /\ doc.reviewText.len >= 5 /\ doc.reviewText.len <= 1000
    /\ doc.ai_response # ""
    /\ doc.ai_summary # ""
    /\ doc.ai_action # ""

\* C11: every handler of the review route takes the stages rate limit, body,
\* validation, AI call, parse, schema check, database, push in that order and
\* skips none; a response is a 200 exactly when all of them were taken and a
\* failure response otherwise, after which the handler is gone; a handler
\* that waits for its push, and every stored record, holds validated input
\* and schema-checked AI output.
C11_StagesInOrder ==
    /\ \A h \in inflight :
            /\ InStageOrder(h.trace)
            /\ Steps(h.trace) \cap FailureMarks = {}
            /\ h.pc = "json" <=> h.trace = SubSeq(StageOrder, 1, 2)
            /\ h.pc = "ai" <=> h.trace = SubSeq(StageOrder, 1, 4)
            /\ h.pc = "push" <=> h.trace = SubSeq(StageOrder, 1, 8)
            /\ h.pc = "push" => FromCheckedInput(h.doc)
    /\ sent.trace # <<>> =>
            /\ InStageOrder(sent.trace)
            /\ sent.resp.status = 200 <=> sent.trace = StageOrder
            /\ sent.resp.status # 200 =>
                    /\ sent.resp.status \in {400, 429, 500}
                    /\ ~sent.resp.body.success
                    /\ "pushed" \notin Steps(sent.trace)
    /\ \A i \in 1..Len(reviews) : FromCheckedInput(reviews[i])

\* A 200 sent by a handler that took every stage, with its record stored.
C11_Witness ==
    /\ sent.trace = StageOrder
    /\ sent.resp.status = 200
    /\ reviews # <<>>
    /\ FromCheckedInput(reviews[Len(reviews)])

\* The latest step resumed a handler whose generateContent call returned text
\* that JSON.parse rejects.
GotUnparseableText ==
    /\ got.settled
    /\ ~got.out.threw
    /\ got.out.text.present
    /\ ~got.out.text.wellFormed

\* C12: the step that finds the AI text not to be JSON answers 500 with
\* success false, and its handler never reached the database or the push.
C12_UnparseableIs500 ==
    GotUnparseableText =>
        /\ sent.resp.status = 500
        /\ ~sent.resp.body.success
        /\ Steps(sent.trace) \cap {"schema", "db", "push", "pushed"} = {}

\* A 500 for text that is no JSON, sent while the store is still empty.
C12_Witness ==
    /\ GotUnparseableText
    /\ sent.resp.status = 500
    /\ sent.resp.body.error = "AI response parsing failed"
    /\ reviews = <<>>

\* The latest step resumed a handler whose generateContent call returned a
\* JSON object whose sentiment_score is a number outside [0, 100].
GotScoreOutOfRange ==
    /\ got.settled
    /\ ~got.out.threw
    /\ got.out.text.present /\ got.out.text.wellFormed
    /\ got.out.text.value.kind = "object"
    /\ got.out.text.value.sentiment_score.t = "number"
    /\ \/ got.out.text.value.sentiment_score.n10 < 0
       \/ got.out.text.value.sentiment_score.n10 > 1000

\* C13: a record about to be pushed carries a score within [0, 100] and, as
\* ai_sentiment, the integer nearest to it (92 for 91.6); a score outside
\* [0, 100] is answered 500 without a push; every stored ai_sentiment is an
\* integer between 0 and 100.
C13_SentimentRounded ==
    /\ \A h \in inflight : h.pc = "push" =>
            /\ h.aiData.sentiment_score >= 0 /\ h.aiData.sentiment_score <= 1000
            /\ 10 * h.doc.ai_sentiment - h.aiData.sentiment_score \in -5..5
            /\ h.aiData.sentiment_score = 916 => h.doc.ai_sentiment = 92
    /\ GotScoreOutOfRange =>
            /\ sent.resp.status = 500
            /\ Steps(sent.trace) \cap {"db", "push", "pushed"} = {}
    /\ \A i \in 1..Len(reviews) : reviews[i].ai_sentiment \in 0..100

\* The score 91.6 is stored as 92, and a later score of 101 is answered 500.
C13_Witness ==
    /\ Len(reviews) = 1
    /\ reviews[1].ai_sentiment = 92
    /\ GotScoreOutOfRange
    /\ sent.resp.status = 500

\* The latest step resumed a handler whose generateContent call returned a
\* JSON object that has a tags array.
GotTagsArray ==
    /\ got.settled
    /\ ~got.out.threw
    /\ got.out.text.present /\ got.out.text.wellFormed
    /\ got.out.text.value.kind = "object"
    /\ got.out.text.value.tags.t = "array"

AtMostThreeAllowedTags(tags) ==
    /\ Len(tags) <= 3
    /\ \A i \in 1..Len(tags) :
            tags[i] \in {"Quality", "Price", "Service", "Delivery", "App Experience"}

\* C14: every record pushed or about to be pushed has at most three tags, all
\* from the vocabulary, and a tags array of more than three elements or with
\* an element outside the vocabulary is answered 500 without a push.
C14_AtMostThreeTags ==
    /\ \A i \in 1..Len(reviews) : AtMostThreeAllowedTags(reviews[i].ai_tags)
    /\ \A h \in inflight : h.pc = "push" => AtMostThreeAllowedTags(h.doc.ai_tags)
    /\ GotTagsArray /\ ~AtMostThreeAllowedTags(got.out.text.value.tags.a) =>
            /\ sent.resp.status = 500
            /\ Steps(sent.trace) \cap {"db", "push", "pushed"} = {}

\* The latest step resumed a handler whose generateContent call returned a
\* JSON object with valid response, summary, action and sentiment_score and
\* no tags property.
GotValidWithoutTags ==
    /\ got.settled
    /\ ~got.out.threw
    /\ got.out.text.present /\ got.out.text.wellFormed
    /\ got.out.text.value.kind = "object"
    /\ got.out.text.value.tags.t = "absent"
    /\ \A f \in {"response", "summary", "action"} :
            /\ got.out.text.value[f].t = "string"
            /\ got.out.text.value[f].len >= 1
    /\ got.out.text.value.sentiment_score.t = "number"
    /\ got.out.text.value.sentiment_score.n10 \in 0..1000

\* C15: AI output that is valid but for a missing tags property passes the
\* schema check: unless the database cannot be opened, the handler issues the
\* push of a record whose ai_tags is the empty sequence.
C15_MissingTagsDefaultEmpty ==
    GotValidWithoutTags =>
        /\ "schema" \in Steps(sent.trace) =>
                /\ sent.resp.body.error = "Internal server error"
                /\ "db" \in Steps(sent.trace)
        /\ sent.trace = <<>> =>
                \E h \in inflight :
                    /\ h.pc = "push"
                    /\ h.doc.ai_tags = <<>>
                    /\ h.doc.ai_response = got.out.text.value.response.s
        /\ env.dbUrl => sent.trace = <<>>

\* The push of a record without tags has been issued.
C15_Witness ==
    /\ GotValidWithoutTags
    /\ \E h \in inflight :
            h.pc = "push" /\ h.doc.ai_tags = <<>> /\ h.doc.ai_response = "Sorry"

\* The latest step resumed a handler whose generateContent call returned no
\* text (response.text undefined or empty).
GotNoText ==
    /\ got.settled
    /\ ~got.out.threw
    /\ ~got.out.text.present

\* C16: when one handler is answered for an AI call without text and the next
\* step answers another handler for text that is no JSON, the two responses
\* differ in status or body.
C16_EmptyDistinctFromMalformed ==
    [][GotNoText /\ GotUnparseableText' =>
            \/ sent.resp.status # sent'.resp.status
            \/ sent.resp.body # sent'.resp.body]_vars

\* C17: a 500 response to a request that reached the AI call (so that the
\* failure is the AI's, the schema check's or the store's) carries no stack,
\* and no details other than a fixed literal of the handler.
C17_NoInternalDetail ==
    sent.resp.status = 500 /\ "ai" \in Steps(sent.trace) =>
        /\ "stack" \notin DOMAIN sent.resp.body
        /\ "details" \in DOMAIN sent.resp.body =>
                sent.resp.body.details = "No parsed content or valid text returned"

Count(trace, e) == Cardinality({i \in 1..Len(trace) : trace[i] = e})

\* The rate limiter, the body read, the AI call, the database and the push
\* are each reached at most once; a push settles at most once; once a stage
\* has failed no stage is entered any more.
NoRetry(trace) ==
    /\ \A e \in {"rateLimit", "json", "ai", "db", "push"} : Count(trace, e) <= 1
    /\ Count(trace, "pushed") + Count(trace, "pushFailed") <= Count(trace, "push")
    /\ \A i, j \in 1..Len(trace) :
            i < j /\ trace[i] \in {"invalid", "catch", "pushFailed"} =>
                trace[j] \notin {"rateLimit", "json", "ai", "db", "push", "pushed"}

\* C18: no handler of the review route, suspended or answered, has consulted
\* the rate limiter, called the AI or issued the push more than once, or has
\* entered another stage after a failure.
C18_NoRetry ==
    /\ \A h \in inflight : NoRetry(h.trace) /\ Count(h.trace, "rateLimit") = 1
    /\ sent.trace # <<>> => NoRetry(sent.trace) /\ Count(sent.trace, "rateLimit") = 1
    /\ \A h \in inflight :
            /\ h.pc = "ai" => Count(h.trace, "ai") = 1 /\ Count(h.trace, "push") = 0
            /\ h.pc = "push" => Count(h.trace, "ai") = 1 /\ Count(h.trace, "push") = 1

\* A handler whose push failed was answered 500 after one AI call and one push.
C18_Witness ==
    /\ sent.resp.status = 500
    /\ Count(sent.trace, "pushFailed") = 1
    /\ Count(sent.trace, "push") = 1
    /\ Count(sent.trace, "ai") = 1

\* The step was taken by a handler of the report route.
ReportStep ==
    \/ reports' # reports
    \/ sent'.trace # <<>> /\ sent'.trace[1] = "report"

\* C19: whatever step either route takes, the records the store held are all
\* still there, unchanged and in the same order, followed by at most one new
\* record; a step of the report route leaves the store as it was.
C19_AppendOnly ==
    [][/\ IsPrefix(reviews, reviews')
       /\ Len(reviews') <= Len(reviews) + 1
       /\ ReportStep => reviews' = reviews]_vars

\* A report was answered over a store that holds the legacy record and,
\* after it, a record pushed by the review route.
C19_Witness ==
    /\ Len(reviews) = 2
    /\ reviews[1] = LegacyDoc
    /\ reviews[2].ai_response = "Sorry"
    /\ sent.resp.status = 200
    /\ sent.trace[1] = "report"

\* C20: a report whose query settled and that was answered while the store
\* is empty (so that it was empty when the query settled) was answered 404
\* with a message and without an AI call; a report whose AI call is pending
\* fetched at least one record.
C20_NoDataIs404 ==
    /\ ( /\ sent.trace # <<>>
         /\ sent.trace[1] = "report"
         /\ "fetched" \in Steps(sent.trace)
         /\ reviews = <<>> ) =>
            /\ sent.resp.status = 404
            /\ DOMAIN sent.resp.body = {"message"}
            /\ sent.resp.body.message = "No reviews found to analyze."
            /\ "ai" \notin Steps(sent.trace)
    /\ \A r \in reports : r.pc = "ai" => r.list # <<>> /\ reviews # <<>>

\* A report over the empty store was answered 404.
C20_Witness ==
    /\ reviews = <<>>
    /\ sent.resp.status = 404
    /\ sent.trace = <<"report", "db", "fetch", "fetched">>

Min(a, b) == IF a <= b THEN a ELSE b

\* The report handlers that issued their AI call in this step.
IssuedAiCall == {r \in reports' : r.pc = "ai" /\ r \notin reports}

\* The entry e was made from the stored record rec.
MadeFrom(e, rec) ==
    /\ e.rating = rec.rating
    /\ e.sentiment = rec.ai_sentiment
    /\ e.tags = rec.ai_tags

\* C21: when a report issues its AI call over a store of N records, N >= 1,
\* its input has min(50, N) entries, and the j-th entry is made from the
\* j-th of the last min(50, N) records of the store.
C21_LastFifty ==
    [][\A r \in IssuedAiCall :
            LET n == Len(reviews)
                k == Min(50, n)
            IN  /\ n >= 1
                /\ Len(r.list) = k
                /\ \A j \in 1..k : MadeFrom(r.list[j], reviews[n - k + j])]_vars

\* A report's AI call is pending with 50 entries, made from the 3rd to the
\* 52nd record of a store of 52: the last of them was pushed by the review
\* route.
C21_Witness ==
    /\ Len(reviews) = 52
    /\ \E r \in reports :
            /\ r.pc = "ai"
            /\ Len(r.list) = 50
            /\ r.list[1].sentiment = 3
            /\ r.list[50].sentiment = 92

\* C22: when a report issues its AI call, an entry made from a record that
\* has review and no reviewText carries the review as its text, one made from
\* a record that has timestamp and no createdAt carries the day of the
\* timestamp as its date, and one made from a record that has both names
\* carries the reviewText and the day of createdAt.
C22_LegacyNamesTolerated ==
    [][\A r \in IssuedAiCall :
            LET n == Len(reviews)
                k == Min(50, n)
            IN  \A j \in 1..k :
                    LET rec == reviews[n - k + j]
                        e == r.list[j]
                    IN  /\ "reviewText" \in DOMAIN rec => e.text = rec.reviewText
                        /\ ("reviewText" \notin DOMAIN rec /\ "review" \in DOMAIN rec) =>
                                e.text = rec.review
                        /\ "createdAt" \in DOMAIN rec =>
                                e.date = rec.createdAt \div 86400000
                        /\ ("createdAt" \notin DOMAIN rec /\ "timestamp" \in DOMAIN rec) =>
                                e.date = rec.timestamp \div 86400000]_vars

\* C23: every list in the rate-limit map has at most five timestamps, and
\* right after an admission every timestamp in the admitted client's list is
\* less than 60,000 ms older than the time of the admission.
C23_WindowBounded ==
    /\ \A c \in DOMAIN rateLimitStore : Len(rateLimitStore[c]) <= 5
    /\ check.called /\ ~check.limited =>
            /\ check.ip \in DOMAIN rateLimitStore
            /\ check.at = now
            /\ \A i \in 1..Len(rateLimitStore[check.ip]) :
                    check.at - rateLimitStore[check.ip][i] < 60000

\* An admission at 61,000 that pruned the timestamps of time 0 from the list
\* and kept the one of 59,999.
C23_Witness ==
    /\ check.called /\ ~check.limited
    /\ check.at = 61000
    /\ Len(History(check.before, check.ip)) >= 3
    /\ rateLimitStore[check.ip] = <<59999, 61000>>

\* The request carried no forwarded address, no x-real-ip and no transport
\* address (each header absent or empty).
NoAddress(hd) ==
    /\ ~hd.xff.present \/ hd.xff.v = <<>>
    /\ ~hd.realIp.present \/ hd.realIp.v = <<>>
    /\ ~hd.ip.present \/ hd.ip.v = <<>>

\* C24: a check changes no list but its own client's, and leaves the result
\* any other client would get at that time as it was; its own result depends
\* on that client's admissions alone; a request without any address is
\* checked as "unknown" and is denied when five such requests, whoever sent
\* them, were admitted less than 60,000 ms before.
C24_KeyedByClientId ==
    check.called =>
        /\ \A c \in ClientIds \ {check.ip} :
                /\ c \in DOMAIN rateLimitStore <=> c \in DOMAIN check.before
                /\ History(rateLimitStore, c) = History(check.before, c)
                /\ isRateLimited(rateLimitStore, c, check.at).limited
                        = isRateLimited(check.before, c, check.at).limited
                /\ isRateLimited(rateLimitStore, c, check.at).retryAfterSec
                        = isRateLimited(check.before, c, check.at).retryAfterSec
        /\ check.limited <=> FreshPriorCount >= 5
        /\ NoAddress(check.hd) =>
                /\ check.ip = <<"unknown">>
                /\ Cardinality({i \in 1..Len(admitted[<<"unknown">>]) :
                        check.at - admitted[<<"unknown">>][i] < 60000}) >= 5
                    => check.limited

\* A request without any address is denied as the sixth of the "unknown"
\* window while the client 10.0.0.1 has been admitted beside it.
C24_Witness ==
    /\ check.called /\ check.limited
    /\ check.hd = Headers(NoValue, NoValue, NoValue)
    /\ check.ip = <<"unknown">>
    /\ Len(admitted[<<"unknown">>]) = 5
    /\ Len(History(rateLimitStore, <<"10.0.0.1">>)) >= 1

\* C25: when every awaited promise settles, a handler of the review route
\* that is suspended is gone in the end; a handler goes only in a step that
\* sends one response, of status 200, 400 or 500 (a denied request is
\* answered 429 without ever being suspended); and a handler waiting for the
\* AI goes only in a step in which generateContent settles: nothing else,
\* no timeout, ends it.
C25_EventuallyAnswered ==
    /\ \A i \in 1..MaxInFlight :
            (\E h \in inflight : h.id = i) ~> (\A h \in inflight : h.id # i)
    /\ [][Cardinality(inflight') < Cardinality(inflight) =>
            /\ Cardinality(inflight') = Cardinality(inflight) - 1
            /\ sent'.resp.status \in {200, 400, 500}]_vars
    /\ [][\A h \in inflight : h.pc = "ai" /\ h \notin inflight' => got'.settled]_vars
    /\ [](sent.trace # <<>> => sent.resp.status \in {200, 400, 429, 500})

\* The last of two suspended handlers has just been answered.
C25_Witness ==
    /\ budget = 0
    /\ inflight = {}
    /\ sent.resp.status \in {200, 400, 500}
    /\ Len(reviews) = 1

\* C26: a call of getFirebaseAdmin that finds an app registered leaves it the
\* only one and succeeds whatever the environment; a call that finds none
\* registers one if it succeeds and none if it fails; it fails when
\* FIREBASE_DATABASE_URL is unset or when there is neither a key file nor a
\* key variable, and succeeds, also after earlier failures, when the URL and
\* a well-formed key file are there.
C26_Singleton ==
    [][budget' # budget =>
        /\ apps \in {0, 1} /\ apps' \in {0, 1}
        /\ apps = 1 => apps' = 1 /\ vout'.success
        /\ vout'.success <=> apps' = 1
        /\ (apps = 0 /\ (~env.dbUrl \/ (env.file = "none" /\ env.key = "none"))) =>
                ~vout'.success
        /\ (apps = 0 /\ env.dbUrl /\ env.file = "json") => vout'.success]_vars

\* The fourth call succeeds by reusing the app although the database URL has
\* been unset since it was registered.
C26_Witness ==
    /\ budget = 0
    /\ vout.done /\ vout.success
    /\ apps = 1
    /\ ~env.dbUrl

\* The instant a denial advertises: its time plus retryAfterSec seconds.
Until == check.at + 1000 * check.retryAfterSec

\* Times at which the denied client may try again.
RetryTimes == Instants \cup {check.at, check.at + 1, Until - 1, Until, Until + 1, Until + 1000}

\* The map after the denied client has tried once more at time t.
AfterAttempt(t) == isRateLimited(rateLimitStore, check.ip, t).store

\* C27 as stated: after a denial at time now with retryAfterSec = r, whatever
\* one attempt the client makes in between, a check at any time from
\* now + 1000 r on is allowed.
C27_WaitIsSufficientAlways ==
    check.called /\ check.limited =>
        /\ \A t \in RetryTimes :
                t >= Until => ~isRateLimited(rateLimitStore, check.ip, t).limited
        /\ \A u, t \in RetryTimes :
                (check.at <= u /\ u < Until /\ t >= Until) =>
                    ~isRateLimited(AfterAttempt(u), check.ip, t).limited

\* C27, amended: after a denial at time now with retryAfterSec = r, a check at
\* any time from now + 1000 r on is allowed, also when the client made an
\* attempt in between that was denied; such an attempt leaves the map as it
\* was.
C27_WaitIsSufficient ==
    check.called /\ check.limited =>
        /\ \A t \in RetryTimes :
                t >= Until => ~isRateLimited(rateLimitStore, check.ip, t).limited
        /\ \A u, t \in RetryTimes :
                ( /\ check.at <= u /\ u < Until /\ t >= Until
                  /\ isRateLimited(rateLimitStore, check.ip, u).limited ) =>
                    /\ AfterAttempt(u) = rateLimitStore
                    /\ ~isRateLimited(AfterAttempt(u), check.ip, t).limited

\* A denial at 59,999 that advertises one second although the oldest
\* timestamp expires one millisecond later.
C27_Witness ==
    /\ check.called /\ check.limited
    /\ check.at = 59999
    /\ check.retryAfterSec = 1
    /\ rateLimitStore[check.ip][1] = 0
    /\ rateLimitStore[check.ip][2] = 59999
    /\ isRateLimited(rateLimitStore, check.ip, 59999).limited
    /\ ~isRateLimited(rateLimitStore, check.ip, 60999).limited

\* C28: every admission stays recorded whatever becomes of its request: the
\* map holds each client's admissions of the current window also right after
\* a 400 or 500, and a check that follows five admissions less than 60,000 ms
\* old, none of which led to a stored record, is denied with 429.
C28_RejectedStillCounts ==
    /\ sent.resp.status \in {400, 500} =>
            \A c \in ClientIds : History(rateLimitStore, c) = WindowOf(admitted[c])
    /\ (check.called /\ FreshPriorCount = 5 /\ reviews = <<>>) =>
            /\ check.limited
            /\ sent.resp.status = 429

\* The sixth request is denied after both new requests of the window were
\* admitted and answered without a record being stored.
C28_Witness ==
    /\ check.called /\ check.limited
    /\ sent.resp.status = 429
    /\ Len(admitted[check.ip]) = 5
    /\ budget = 0
    /\ inflight = {}
    /\ reviews = <<>>

\* The admissions recorded so far, as (client, position) pairs.
Admissions == {<<c, i>> \in ClientIds \X (1..(MaxAdmit + Len(PriorWindow))) : i <= Len(admitted[c])}

\* C29: a request whose body does not parse as JSON is answered 500
\* "Internal server error", not 400; its admission stays recorded, and the
\* request reaches neither the AI call nor the store append.
C29_BadJsonIs500 ==
    sent.trace = <<"rateLimit", "json", "catch">> =>
        /\ sent.resp.status = 500
        /\ sent.resp.status # 400
        /\ sent.resp.body.success = FALSE
        /\ sent.resp.body.error = "Internal server error"
        /\ Cardinality(Admissions) > Cardinality(inflight)
        /\ \A c \in ClientIds : History(rateLimitStore, c) = WindowOf(admitted[c])
        /\ got = NoOutcome
        /\ "ai" \notin Steps(sent.trace)
        /\ "push" \notin Steps(sent.trace)

\* The first request of a run has an unparseable body: it is answered 500
\* with its timestamp in the map and nothing stored.
C29_Witness ==
    /\ sent.trace = <<"rateLimit", "json", "catch">>
    /\ sent.resp.status = 500
    /\ sent.resp.body.error = "Internal server error"
    /\ History(rateLimitStore, FirstClient) = <<0>>
    /\ admitted[FirstClient] = <<0>>
    /\ inflight = {}
    /\ reviews = <<>>

\* The record d has neither createdAt nor timestamp.
Undated(d) == "createdAt" \notin DOMAIN d /\ "timestamp" \notin DOMAIN d

\* C30: when the query of a report request settles and a fetched record has
\* neither createdAt nor timestamp, the request ends in that step with 500
\* "Internal Server Error" and never reaches the AI call, whatever the other
\* fetched records are.
C30_UndatedRecordFailsReport ==
    [][\A r \in reports :
        LET snapshot == limitToLast(reviews, REPORT_LIMIT)
        IN  (/\ r.pc = "fetch"
             /\ r \notin reports'
             /\ \E i \in 1..Len(snapshot) : Undated(snapshot[i]))
            => /\ sent'.resp.status = 500
               /\ sent'.resp.body = [error |-> "Internal Server Error"]
               /\ \A q \in reports' : q.id # r.id
               /\ "ai" \notin Steps(sent'.trace)]_vars

\* A report over a well-formed record and an undated one failed while the
\* list was built.
C30_Witness ==
    /\ sent.trace = <<"report", "db", "fetch", "fetched", "list", "catch">>
    /\ sent.resp.status = 500
    /\ Len(reviews) >= 2
    /\ ~Undated(reviews[1])
    /\ Undated(reviews[2])

====
